---- MODULE Spec2Model ----
(***************************************************************************)
(* Model of the utility layer of the image generator application:          *)
(*   MemoryManager    - the bounded image preload cache (a JS Map)         *)
(*   retryWithBackoff - the retry helper with exponential backoff          *)
(* Each handler of the source is one action.  Promises are modelled by the *)
(* value they settle with.                                                 *)
(***************************************************************************)
EXTENDS Integers, Sequences, FiniteSets, TLC

(***************************************************************************)
(* Bounds of the model.                                                    *)
(***************************************************************************)
\* capacity used for model checking (the source sets 50)
CacheCapacity == 2
\* number of Image objects (underlying loads) created in one behaviour
MaxImages == 3

\* largest maxRetries argument tried
MaxAttempts == 3
\* number of NetworkMonitor.subscribe calls in one behaviour
MaxSubs == 3
\* capacity of the error log used for model checking (the source sets 100)
LogCapacity == 3
\* number of recent errors used for model checking (the source takes 10)
RecentCount == 2
\* number of images the history grows to in one behaviour
MaxHistory == 2
\* last instant of the clock
MaxTime == 4
\* number of calls of a debounced or throttled wrapper in one behaviour
MaxCalls == 3

\* resource keys (the src urls)
Keys == {"a", "b", "c", "d"}
\* the events an image load can fail with
Causes == {"decodeError", "netError"}

\* the invocations of retryWithBackoff in one behaviour
Retries == {1, 2}
\* arguments of retryWithBackoff (3 and 1000 are the defaults and what App passes)
MaxRetriesArgs == (-1)..MaxAttempts
BaseDelayArgs == {0, 1000}
\* what the wrapped operation rejects / resolves with
Errors == {"e1", "e2"}
Values == {"v1", "v2"}

\* the listener functions passed to NetworkMonitor.subscribe
ListenerFns == {"setIsOnline", "f", "g"}
\* the ids of the users that sign in
Users == {"u1", "u2"}
\* the delay argument of debounce, in clock units (App passes 300 ms)
DelayArgs == {0, 2}
\* the limit argument of throttle, in clock units
LimitArgs == {0, 2}
\* the arguments a wrapper is called with
CallArgs == {"x", "y"}

\* ---------------------------------------------------------------------------
\* State
\* ---------------------------------------------------------------------------
VARIABLES
  imageCache,   \* MemoryManager.imageCache: the Map, as the sequence of its
                \* entries [src, img] in iteration (insertion) order
  inflight,     \* Image objects whose load was started and has not settled:
                \* records [img, src]
  nextImg,      \* identity of the next object made by `new Image()`
  loadCount,    \* per key: how many times `img.src = src` was executed
  lastOp,       \* the last cache operation and what its promise settled with
  insertSeq,    \* history: per key, the tick at which it was last added to
                \* the Map as a new key (0: never)
  tick,         \* history: number of Map insertions of a new key so far
  wasHit,       \* history: keys that had a cache hit since they were inserted
  armed,        \* history: keys that were cached at a clearCache() with no
                \* load of them in flight, and not preloaded since
  failedSince,  \* history: keys a load of which failed, and not preloaded since
  retry,        \* per invocation of retryWithBackoff: its arguments, its
                \* locals i and lastError, where it is suspended, what its
                \* promise settled with, and the history of its attempts
  nmIsOnline,   \* NetworkMonitor.isOnline
  listeners,    \* NetworkMonitor.listeners: the array of listener functions
  handles,      \* the unsubscribe closures returned so far, in order: the
                \* listener each captured, and (history) whether it was called
  notified,     \* history: per listener function, how often the last
                \* online/offline event invoked it
  mounted,      \* App is mounted
  cleanup,      \* App: the handle kept by the subscription effect (0: none)
  isOnline,     \* App state isOnline
  user,         \* App state user (its id, "none" when signed out)
  generatedImages, \* App state generatedImages, newest first
  storage,      \* localStorage item generated-images-<u>, per user: the set
                \* holding its value, empty when there is no such item
  errors,       \* ErrorHandler.errors
  appErrors,    \* localStorage item app-errors: the set holding its value,
                \* empty when there is no such item
  isGenerating, \* App state isGenerating
  progress,     \* App state progress
  progressInterval, \* the setInterval of a generateImage run is active
  gen,          \* the generateImage run: where it is suspended and its locals
  now,          \* the clock setTimeout measures its delays with
  deb,          \* the wrapper made by debounce: its closure (delay,
                \* timeoutId), its pending timers, and the history of its
                \* calls and of the invocations of func
  thr           \* the wrapper made by throttle: its closure (limit,
                \* inThrottle), its pending timers, and the history of its
                \* calls and of the invocations of func

cacheVars == <<imageCache, inflight, nextImg, loadCount, lastOp,
               insertSeq, tick, wasHit, armed, failedSince>>

timeVars == <<now, deb, thr>>

netVars == <<nmIsOnline, listeners, handles, notified, mounted, cleanup, isOnline>>

storeVars == <<user, generatedImages, storage>>

logVars == <<errors, appErrors>>

genVars == <<isGenerating, progress, progressInterval, gen>>

\* ---------------------------------------------------------------------------
\* The JS Map operations used by MemoryManager
\* ---------------------------------------------------------------------------
MapKeys(m) == [i \in 1..Len(m) |-> m[i].src]

MapKeySet(m) == {m[i].src : i \in 1..Len(m)}

MapHas(m, k) == \E i \in 1..Len(m) : m[i].src = k

MapGet(m, k) == m[CHOOSE i \in 1..Len(m) : m[i].src = k].img

MapDelete(m, k) == SelectSeq(m, LAMBDA e : e.src # k)

\* Map.prototype.set: an existing key keeps its position and gets the new
\* value, a new key is appended
MapSet(m, k, v) ==
  IF MapHas(m, k)
    THEN [i \in 1..Len(m) |-> IF m[i].src = k THEN [src |-> k, img |-> v] ELSE m[i]]
    ELSE Append(m, [src |-> k, img |-> v])

maxCacheSize == CacheCapacity

\* mutant: evicts the newest entry instead of the oldest
afterEvict_newest(m) ==
  IF Len(m) >= maxCacheSize /\ Len(m) > 0
    THEN MapDelete(m, m[Len(m)].src)
    ELSE m

\* the map after the eviction step of addToCache
afterEvict(m) ==
  IF Len(m) >= maxCacheSize /\ Len(m) > 0
    THEN MapDelete(m, m[1].src)     \* firstKey = keys().next().value
    ELSE m

\* mutant: no eviction before the insertion
addToCache_noEvict(m, src, img) == MapSet(m, src, img)

addToCache(m, src, img) == MapSet(afterEvict(m), src, img)

getCacheSize == Len(imageCache)

\* ---------------------------------------------------------------------------
\* MemoryManager actions
\* ---------------------------------------------------------------------------
\* lastOp.evicted: the keys the operation removed from the Map
Evicted(m, n) == MapKeySet(m) \ MapKeySet(n)

NoOp == [op |-> "none", key |-> "", outcome |-> "", img |-> 0, cause |-> "",
         evicted |-> {}]

\* preloadImage(src) when the key is cached: resolve with the cached image
preloadImageCached(src) ==
  /\ MapHas(imageCache, src)
  /\ lastOp' = [op |-> "preload", key |-> src, outcome |-> "resolved",
                img |-> MapGet(imageCache, src), cause |-> "", evicted |-> {}]
  /\ wasHit' = wasHit \cup {src}
  /\ armed' = armed \ {src}
  /\ failedSince' = failedSince \ {src}
  /\ UNCHANGED <<imageCache, inflight, nextImg, loadCount, insertSeq, tick>>

\* mutant: the has() test is lost and a cached key is loaded again
preloadHit_reload(src) ==
  /\ MapHas(imageCache, src)
  /\ nextImg <= MaxImages
  /\ inflight' = inflight \cup {[img |-> nextImg, src |-> src]}
  /\ nextImg' = nextImg + 1
  /\ loadCount' = [loadCount EXCEPT ![src] = @ + 1]
  /\ lastOp' = [op |-> "preload", key |-> src, outcome |-> "pending",
                img |-> nextImg, cause |-> "", evicted |-> {}]
  /\ armed' = armed \ {src}
  /\ failedSince' = failedSince \ {src}
  /\ UNCHANGED <<imageCache, insertSeq, tick, wasHit, retry,
               netVars, storeVars, logVars, genVars, timeVars>>

preloadHit(src) ==
  /\ preloadImageCached(src)
  /\ UNCHANGED <<retry, netVars, storeVars, logVars, genVars, timeVars>>

\* preloadImage(src) when the key is not cached: create an Image, install the
\* handlers and start the load; the promise stays pending
preloadImageUncached(src) ==
  /\ ~MapHas(imageCache, src)
  /\ nextImg <= MaxImages
  /\ inflight' = inflight \cup {[img |-> nextImg, src |-> src]}
  /\ nextImg' = nextImg + 1
  /\ loadCount' = [loadCount EXCEPT ![src] = @ + 1]
  /\ lastOp' = [op |-> "preload", key |-> src, outcome |-> "pending",
                img |-> nextImg, cause |-> "", evicted |-> {}]
  /\ armed' = armed \ {src}
  /\ failedSince' = failedSince \ {src}
  /\ UNCHANGED <<imageCache, insertSeq, tick, wasHit>>

\* mutant: a call joins the load of the key that is already in flight
preloadMiss_dedup(src) ==
  /\ ~MapHas(imageCache, src)
  /\ nextImg <= MaxImages
  /\ IF \E l \in inflight : l.src = src
       THEN /\ lastOp' = [op |-> "preload", key |-> src, outcome |-> "pending",
                          img |-> (CHOOSE l \in inflight : l.src = src).img,
                          cause |-> "", evicted |-> {}]
            /\ UNCHANGED <<inflight, nextImg, loadCount>>
       ELSE /\ inflight' = inflight \cup {[img |-> nextImg, src |-> src]}
            /\ nextImg' = nextImg + 1
            /\ loadCount' = [loadCount EXCEPT ![src] = @ + 1]
            /\ lastOp' = [op |-> "preload", key |-> src, outcome |-> "pending",
                          img |-> nextImg, cause |-> "", evicted |-> {}]
  /\ armed' = armed \ {src}
  /\ failedSince' = failedSince \ {src}
  /\ UNCHANGED <<imageCache, insertSeq, tick, wasHit, retry,
               netVars, storeVars, logVars, genVars, timeVars>>

preloadMiss(src) ==
  /\ preloadImageUncached(src)
  /\ UNCHANGED <<retry, netVars, storeVars, logVars, genVars, timeVars>>

preloadImage(src) == preloadHit(src) \/ preloadMiss(src)

\* img.onload: addToCache(src, img); resolve(img)
onloadHandler(l) ==
  /\ l \in inflight
  /\ imageCache' = addToCache(imageCache, l.src, l.img)
  /\ inflight' = inflight \ {l}
  /\ lastOp' = [op |-> "onload", key |-> l.src, outcome |-> "resolved",
                img |-> l.img, cause |-> "",
                evicted |-> Evicted(imageCache, imageCache')]
  /\ IF MapHas(afterEvict(imageCache), l.src)
       THEN UNCHANGED <<insertSeq, tick, wasHit>>
       ELSE /\ tick' = tick + 1
            /\ insertSeq' = [insertSeq EXCEPT ![l.src] = tick + 1]
            /\ wasHit' = wasHit \ {l.src}
  /\ UNCHANGED <<nextImg, loadCount, armed, failedSince>>

onload(l) ==
  /\ onloadHandler(l)
  /\ UNCHANGED <<retry, netVars, storeVars, logVars, genVars, timeVars>>

\* img.onerror = reject: the promise is rejected with the error event
onerrorHandler(l, cause) ==
  /\ l \in inflight
  /\ inflight' = inflight \ {l}
  /\ lastOp' = [op |-> "onerror", key |-> l.src, outcome |-> "rejected",
                img |-> l.img, cause |-> cause, evicted |-> {}]
  /\ failedSince' = failedSince \cup {l.src}
  /\ UNCHANGED <<imageCache, nextImg, loadCount, insertSeq, tick, wasHit, armed>>

\* mutant: the failed image is put into the cache
onerror_cached(l, cause) ==
  /\ l \in inflight
  /\ inflight' = inflight \ {l}
  /\ imageCache' = addToCache(imageCache, l.src, l.img)
  /\ lastOp' = [op |-> "onerror", key |-> l.src, outcome |-> "rejected",
                img |-> l.img, cause |-> cause,
                evicted |-> Evicted(imageCache, imageCache')]
  /\ failedSince' = failedSince \cup {l.src}
  /\ UNCHANGED <<nextImg, loadCount, insertSeq, tick, wasHit, armed, retry,
               netVars, storeVars, logVars, genVars, timeVars>>

onerror(l, cause) ==
  /\ onerrorHandler(l, cause)
  /\ UNCHANGED <<retry, netVars, storeVars, logVars, genVars, timeVars>>

\* mutant: the newest entry survives the clear
clearCache_keepNewest ==
  /\ imageCache' = IF Len(imageCache) > 0
                     THEN <<imageCache[Len(imageCache)]>> ELSE <<>>
  /\ lastOp' = [op |-> "clear", key |-> "", outcome |-> "", img |-> 0, cause |-> "",
                evicted |-> Evicted(imageCache, imageCache')]
  /\ armed' = {k \in armed \cup MapKeySet(imageCache) : \A l \in inflight : l.src # k}
  /\ UNCHANGED <<inflight, nextImg, loadCount, insertSeq, tick, wasHit, failedSince, retry,
               netVars, storeVars, logVars, genVars, timeVars>>

clearCache ==
  /\ imageCache' = <<>>
  /\ lastOp' = [op |-> "clear", key |-> "", outcome |-> "", img |-> 0, cause |-> "",
                evicted |-> Evicted(imageCache, imageCache')]
  /\ armed' = {k \in armed \cup MapKeySet(imageCache) : \A l \in inflight : l.src # k}
  /\ UNCHANGED <<inflight, nextImg, loadCount, insertSeq, tick, wasHit, failedSince, retry,
               netVars, storeVars, logVars, genVars, timeVars>>

CacheInit ==
  /\ imageCache = <<>>
  /\ inflight = {}
  /\ nextImg = 1
  /\ loadCount = [k \in Keys |-> 0]
  /\ lastOp = NoOp
  /\ insertSeq = [k \in Keys |-> 0]
  /\ tick = 0
  /\ wasHit = {}
  /\ armed = {}
  /\ failedSince = {}

CacheNext ==
  \/ \E src \in Keys : preloadHit(src)
  \/ \E src \in Keys : preloadMiss(src)
  \/ \E l \in inflight : onload(l)
  \/ \E l \in inflight, cause \in Causes : onerror(l, cause)
  \/ clearCache

\* ---------------------------------------------------------------------------
\* retryWithBackoff
\* ---------------------------------------------------------------------------
RECURSIVE Pow2(_)
\* Math.pow(2, i)
Pow2(n) == IF n <= 0 THEN 1 ELSE 2 * Pow2(n - 1)

\* an invocation that has not been made yet; lastError is declared without a
\* value, so it is undefined until an attempt fails
NotStarted ==
  [pc |-> "idle", maxRetries |-> 0, baseDelay |-> 0, i |-> 0,
   lastError |-> "undefined", settled |-> "", calls |-> 0, pending |-> 0,
   errs |-> <<>>, okAt |-> 0, okValue |-> "", waits |-> <<>>, timer |-> -1]

\* the loop test `i < maxRetries` and what follows it: `await fn()` when it
\* holds, the `throw lastError!` after the loop when it does not
loopTest(s) ==
  IF s.i < s.maxRetries
    THEN [s EXCEPT !.pc = "calling", !.calls = @ + 1, !.pending = @ + 1]
    ELSE [s EXCEPT !.pc = "thrown", !.settled = s.lastError]

\* the call retryWithBackoff(fn, mr, bd): runs up to the first await
retryWithBackoff(r, mr, bd) ==
  /\ retry[r].pc = "idle"
  /\ retry' = [retry EXCEPT ![r] =
                 loopTest([NotStarted EXCEPT !.maxRetries = mr, !.baseDelay = bd])]
  /\ UNCHANGED <<cacheVars, netVars, storeVars, logVars, genVars, timeVars>>

\* mutant: the `return` is lost, the loop goes on after a success
fnResolved_noReturn(s, v) ==
  loopTest([s EXCEPT !.pending = @ - 1, !.i = @ + 1,
                     !.okAt = IF @ = 0 THEN s.calls ELSE @,
                     !.okValue = IF s.okAt = 0 THEN v ELSE @])

\* fn() resolves with v: `return await fn()`
fnResolved(s, v) ==
  [s EXCEPT !.pc = "returned", !.settled = v, !.pending = @ - 1,
            !.okAt = IF @ = 0 THEN s.calls ELSE @,
            !.okValue = IF s.okAt = 0 THEN v ELSE @]

fnResolve(r, v) ==
  /\ retry[r].pc = "calling"
  /\ retry' = [retry EXCEPT ![r] = fnResolved(retry[r], v)]
  /\ UNCHANGED <<cacheVars, netVars, storeVars, logVars, genVars, timeVars>>

\* mutant: the delay does not grow with the attempt index
fnRejected_fixedDelay(s, e) ==
  IF s.i = s.maxRetries - 1
    THEN [s EXCEPT !.lastError = e, !.pending = @ - 1, !.errs = Append(@, e),
                   !.pc = "thrown", !.settled = e]
    ELSE [s EXCEPT !.lastError = e, !.pending = @ - 1, !.errs = Append(@, e),
                   !.pc = "sleeping",
                   !.timer = s.baseDelay,
                   !.waits = Append(@, s.baseDelay)]

\* mutant: a zero delay is taken for "do not retry"
fnRejected_zeroDelayGivesUp(s, e) ==
  IF s.i = s.maxRetries - 1 \/ s.baseDelay * Pow2(s.i) = 0
    THEN [s EXCEPT !.lastError = e, !.pending = @ - 1, !.errs = Append(@, e),
                   !.pc = "thrown", !.settled = e]
    ELSE [s EXCEPT !.lastError = e, !.pending = @ - 1, !.errs = Append(@, e),
                   !.pc = "sleeping",
                   !.timer = s.baseDelay * Pow2(s.i),
                   !.waits = Append(@, s.baseDelay * Pow2(s.i))]

\* mutant: lastError keeps the first error instead of the most recent one
fnRejected_firstError(s, e) ==
  LET err == IF s.lastError = "undefined" THEN e ELSE s.lastError IN
  IF s.i = s.maxRetries - 1
    THEN [s EXCEPT !.lastError = err, !.pending = @ - 1, !.errs = Append(@, e),
                   !.pc = "thrown", !.settled = err]
    ELSE [s EXCEPT !.lastError = err, !.pending = @ - 1, !.errs = Append(@, e),
                   !.pc = "sleeping",
                   !.timer = s.baseDelay * Pow2(s.i),
                   !.waits = Append(@, s.baseDelay * Pow2(s.i))]

\* fn() rejects with e: the catch block
fnRejected(s, e) ==
  IF s.i = s.maxRetries - 1
    THEN [s EXCEPT !.lastError = e, !.pending = @ - 1, !.errs = Append(@, e),
                   !.pc = "thrown", !.settled = e]
    ELSE [s EXCEPT !.lastError = e, !.pending = @ - 1, !.errs = Append(@, e),
                   !.pc = "sleeping",
                   !.timer = s.baseDelay * Pow2(s.i),
                   !.waits = Append(@, s.baseDelay * Pow2(s.i))]

\* mutant: lastError is one variable shared by all invocations
fnReject_sharedError(r, e) ==
  /\ retry[r].pc = "calling"
  /\ retry' = [q \in Retries |->
                 IF q = r THEN fnRejected(retry[r], e)
                          ELSE [retry[q] EXCEPT !.lastError = e]]
  /\ UNCHANGED <<cacheVars, netVars, storeVars, logVars, genVars, timeVars>>

fnReject(r, e) ==
  /\ retry[r].pc = "calling"
  /\ retry' = [retry EXCEPT ![r] = fnRejected(retry[r], e)]
  /\ UNCHANGED <<cacheVars, netVars, storeVars, logVars, genVars, timeVars>>

\* mutant: the timer callback does not resolve the promise awaited by the loop
timerFired_noResolve(s) == [s EXCEPT !.timer = -1]

\* the setTimeout of the backoff fires: i++ and the next loop test
timerFired(s) == loopTest([s EXCEPT !.timer = -1, !.i = @ + 1])

timerFire(r) ==
  /\ retry[r].pc = "sleeping"
  /\ retry' = [retry EXCEPT ![r] = timerFired(retry[r])]
  /\ UNCHANGED <<cacheVars, netVars, storeVars, logVars, genVars, timeVars>>

RetryInit == retry = [r \in Retries |-> NotStarted]

RetryNext ==
  \/ \E r \in Retries, mr \in MaxRetriesArgs, bd \in BaseDelayArgs :
       retryWithBackoff(r, mr, bd)
  \/ \E r \in Retries, v \in Values : fnResolve(r, v)
  \/ \E r \in Retries, e \in Errors : fnReject(r, e)
  \/ \E r \in Retries : timerFire(r)

\* ---------------------------------------------------------------------------
\* NetworkMonitor and the App's subscription to it
\* ---------------------------------------------------------------------------
\* navigator.onLine when the module is loaded is either value; App starts
\* with useState(true)
NetInit ==
  /\ nmIsOnline \in BOOLEAN
  /\ listeners = <<>>
  /\ handles = <<>>
  /\ notified = [l \in ListenerFns |-> 0]
  /\ mounted = FALSE
  /\ cleanup = 0
  /\ isOnline = TRUE

\* Array.prototype.indexOf, 1-based, 0 when x does not occur (-1 in JS)
indexOf(a, x) ==
  IF \E i \in 1..Len(a) : a[i] = x
    THEN CHOOSE i \in 1..Len(a) : a[i] = x /\ \A j \in 1..(i - 1) : a[j] # x
    ELSE 0

\* a.splice(index, 1)
splice(a, index) ==
  [i \in 1..(Len(a) - 1) |-> IF i < index THEN a[i] ELSE a[i + 1]]

\* the number of occurrences of x in the array
count(a, x) == Cardinality({i \in 1..Len(a) : a[i] = x})

getStatus == nmIsOnline

\* the listeners array after the closure returned for `listener` has run
unsubscribed(a, listener) ==
  IF indexOf(a, listener) > 0 THEN splice(a, indexOf(a, listener)) ELSE a

\* NetworkMonitor.subscribe(l) by a caller other than App
subscribe(l) ==
  /\ l # "setIsOnline"
  /\ Len(handles) < MaxSubs
  /\ listeners' = Append(listeners, l)
  /\ handles' = Append(handles, [fn |-> l, called |-> FALSE])
  /\ UNCHANGED <<nmIsOnline, notified, mounted, cleanup, isOnline>>
  /\ UNCHANGED <<cacheVars, retry, storeVars, logVars, genVars, timeVars>>

\* a call of the h-th closure returned by subscribe
unsubscribe(h) ==
  /\ h \in 1..Len(handles)
  /\ h # cleanup
  /\ handles[h].fn # "setIsOnline"
  /\ listeners' = unsubscribed(listeners, handles[h].fn)
  /\ handles' = [handles EXCEPT ![h].called = TRUE]
  /\ UNCHANGED <<nmIsOnline, notified, mounted, cleanup, isOnline>>
  /\ UNCHANGED <<cacheVars, retry, storeVars, logVars, genVars, timeVars>>

\* the window 'online' / 'offline' listeners installed by init():
\* set isOnline and notifyListeners; the App's listener is setIsOnline
netEvent(online) ==
  /\ nmIsOnline' = online
  /\ notified' = [l \in ListenerFns |-> count(listeners, l)]
  /\ isOnline' = IF count(listeners, "setIsOnline") > 0 /\ mounted
                   THEN online ELSE isOnline
  /\ UNCHANGED <<listeners, handles, mounted, cleanup>>
  /\ UNCHANGED <<cacheVars, retry, storeVars, logVars, genVars, timeVars>>

\* App mounts: isOnline is useState(true) and the effect subscribes
\* setIsOnline and keeps the returned closure (the other App state is at its
\* initial value wherever this action is used)
AppMount ==
  /\ ~mounted
  /\ Len(handles) < MaxSubs
  /\ mounted' = TRUE
  /\ isOnline' = TRUE
  /\ listeners' = Append(listeners, "setIsOnline")
  /\ handles' = Append(handles, [fn |-> "setIsOnline", called |-> FALSE])
  /\ cleanup' = Len(handles) + 1
  /\ UNCHANGED <<nmIsOnline, notified>>
  /\ UNCHANGED <<cacheVars, retry, storeVars, logVars, genVars, timeVars>>

\* App unmounts: the effect's cleanup calls the closure
AppUnmount ==
  /\ mounted
  /\ mounted' = FALSE
  /\ listeners' = unsubscribed(listeners, handles[cleanup].fn)
  /\ handles' = [handles EXCEPT ![cleanup].called = TRUE]
  /\ cleanup' = 0
  /\ UNCHANGED <<nmIsOnline, notified, isOnline>>
  /\ UNCHANGED <<cacheVars, retry, storeVars, logVars, genVars, timeVars>>

\* the offline guard of generateImage and generateVideo: `if (!isOnline)`
offlineGuardRejects == ~isOnline

NetNext ==
  \/ \E l \in ListenerFns : subscribe(l)
  \/ \E h \in 1..MaxSubs : unsubscribe(h)
  \/ \E online \in BOOLEAN : netEvent(online)
  \/ AppMount
  \/ AppUnmount

\* ---------------------------------------------------------------------------
\* ErrorHandler
\* ---------------------------------------------------------------------------
maxErrors == LogCapacity

\* the context and action arguments ErrorHandler.logError is called with
LogContexts ==
  {[context |-> "Image Generation", action |-> "generate_image"],
   [context |-> "Image preload", action |-> "undefined"],
   [context |-> "Save images to localStorage", action |-> "undefined"]}

\* the ErrorInfo built by logError (the timestamp Date.now() is left out)
ErrorInfo(error, ctx) ==
  [error |-> error, context |-> ctx.context, action |-> ctx.action]

\* errors.push(errorInfo) and the shift() when the log is over maxErrors
pushed(errs, info) ==
  IF Len(Append(errs, info)) > maxErrors
    THEN Tail(Append(errs, info))
    ELSE Append(errs, info)

\* a.slice(-n)
sliceLast(a, n) ==
  IF Len(a) <= n THEN a ELSE [i \in 1..n |-> a[Len(a) - n + i]]

\* JSON.stringify of an array of ErrorInfo: an Error object has no
\* enumerable own property and is written as {}; a member that is undefined
\* is left out
stringifyErrors(a) ==
  [i \in 1..Len(a) |->
     IF a[i].action = "undefined"
       THEN [error |-> "{}", context |-> a[i].context]
       ELSE [error |-> "{}", context |-> a[i].context, action |-> a[i].action]]

\* localStorage.setItem('app-errors', ...) inside try/catch: the item is
\* written unless setItem throws
storedErrors(old, errs, writeOk) ==
  IF writeOk THEN {stringifyErrors(sliceLast(errs, RecentCount))} ELSE old

getRecentErrors == sliceLast(errors, RecentCount)

logError(error, ctx, writeOk) ==
  /\ errors' = pushed(errors, ErrorInfo(error, ctx))
  /\ appErrors' = storedErrors(appErrors, errors', writeOk)
  /\ UNCHANGED <<cacheVars, retry, netVars, storeVars, genVars, timeVars>>

clearErrors ==
  /\ errors' = <<>>
  /\ appErrors' = {}
  /\ UNCHANGED <<cacheVars, retry, netVars, storeVars, genVars, timeVars>>

LogInit ==
  /\ errors = <<>>
  /\ appErrors = {}

LogNext ==
  \/ \E error \in Errors \cup Causes, ctx \in LogContexts, writeOk \in BOOLEAN :
       logError(error, ctx, writeOk)
  \/ clearErrors

\* ---------------------------------------------------------------------------
\* The App's image history and its copy in localStorage
\* ---------------------------------------------------------------------------
\* the urls the image service answers with
GenUrls == {"a", "b"}

\* a GeneratedImage: its url and its timestamp (a Date); `by` is history, the
\* user who was signed in when the image was added
GeneratedImage(url, u) == [url |-> url, timestamp |-> "Date", by |-> u]

\* JSON.stringify(generatedImages): a Date is written as a string
stringifyImages(imgs) ==
  [i \in 1..Len(imgs) |->
     [imgs[i] EXCEPT !.timestamp = IF @ = "Date" THEN "string" ELSE @]]

\* JSON.parse and the map that turns every timestamp into a Date again
parseImages(saved) ==
  [i \in 1..Len(saved) |-> [saved[i] EXCEPT !.timestamp = "Date"]]

\* the save effect for user id u and history imgs: setItem is reached
saveRuns(u, imgs) == u # "none" /\ Len(imgs) > 0

\* localStorage after the save effect; setItem throws when writeOk is false
saveEffect(st, u, imgs, writeOk) ==
  IF saveRuns(u, imgs) /\ writeOk
    THEN [st EXCEPT ![u] = {stringifyImages(imgs)}]
    ELSE st

\* the error log after n failed saves were reported with logError
RECURSIVE saveFailuresLogged(_, _)
saveFailuresLogged(errs, n) ==
  IF n = 0 THEN errs
  ELSE saveFailuresLogged(
         pushed(errs, ErrorInfo("QuotaExceededError",
                                [context |-> "Save images to localStorage",
                                 action |-> "undefined"])),
         n - 1)

\* onAuthStateChanged delivers user u: setUser, then the effects that depend
\* on user?.id run in order, the load effect reading the item of u and the
\* save effect writing the history of this render under the key of u; when
\* the load effect has set a new history, the render that follows runs the
\* save effect again
authStateChanged(u, writeOk, logOk) ==
  LET loaded == u # "none" /\ storage[u] # {}
      saved == CHOOSE v \in storage[u] : TRUE
      images1 == IF loaded THEN parseImages(saved) ELSE generatedImages
      storage1 == saveEffect(storage, u, generatedImages, writeOk)
      storage2 == IF loaded THEN saveEffect(storage1, u, images1, writeOk)
                            ELSE storage1
      failures == (IF saveRuns(u, generatedImages) /\ ~writeOk THEN 1 ELSE 0)
                  + (IF loaded /\ saveRuns(u, images1) /\ ~writeOk THEN 1 ELSE 0)
  IN
  /\ u # user
  /\ user' = u
  /\ generatedImages' = images1
  /\ storage' = storage2
  /\ errors' = saveFailuresLogged(errors, failures)
  /\ appErrors' = IF failures > 0
                    THEN storedErrors(appErrors, errors', logOk)
                    ELSE appErrors
  /\ UNCHANGED <<cacheVars, retry, netVars, genVars, timeVars>>

\* the state after setGeneratedImages(prev => [newImage, ...prev]) and the
\* save effect it triggers
imagesAdded(url) == <<GeneratedImage(url, user)>> \o generatedImages

\* a generateImage run of the signed-in user ends with a new image
imageGenerated(url, writeOk, logOk) ==
  LET failures == IF saveRuns(user, imagesAdded(url)) /\ ~writeOk THEN 1 ELSE 0
  IN
  /\ user # "none"
  /\ Len(generatedImages) < MaxHistory
  /\ generatedImages' = imagesAdded(url)
  /\ storage' = saveEffect(storage, user, generatedImages', writeOk)
  /\ errors' = saveFailuresLogged(errors, failures)
  /\ appErrors' = IF failures > 0
                    THEN storedErrors(appErrors, errors', logOk)
                    ELSE appErrors
  /\ UNCHANGED user
  /\ UNCHANGED <<cacheVars, retry, netVars, genVars, timeVars>>

StoreInit ==
  /\ user = "none"
  /\ generatedImages = <<>>
  /\ storage = [u \in Users |-> {}]

StoreNext ==
  \/ \E u \in Users \cup {"none"}, writeOk \in BOOLEAN, logOk \in BOOLEAN :
       authStateChanged(u, writeOk, logOk)
  \/ \E url \in GenUrls, writeOk \in BOOLEAN, logOk \in BOOLEAN :
       imageGenerated(url, writeOk, logOk)

\* ---------------------------------------------------------------------------
\* App.generateImage
\* ---------------------------------------------------------------------------
\* the retryWithBackoff invocation made by generateImage and its arguments
GenRetry == 1
GenMaxRetries == 3
GenBaseDelay == 1000

\* what blink.ai.generateImage resolves with in a run: data with one url
\* (one of GenUrls), or no data
GenResults == {"a", "empty"}
\* the outcomes of localStorage.setItem during a run
GenWrites == {TRUE}
GenErrors == {"e1"}
GenCauses == {"netError"}
GenUsers == {"u1"}

\* the run of generateImage: where it waits, the url and the Image it
\* preloads, and how the last run ended (path, toast)
GenIdle == [pc |-> "idle", path |-> "", toast |-> "", url |-> "", img |-> 0]

\* the finally block has run: the state of the run after it
finished(path, toast, url) ==
  [pc |-> "idle", path |-> path, toast |-> toast, url |-> url, img |-> 0]

Min(a, b) == IF a < b THEN a ELSE b

\* the Generate button is clicked. The App renders the button only for a
\* signed-in user and disables it while isGenerating, for an empty prompt and
\* when offline, so that the two early returns of generateImage are not taken.
\* The handler runs up to `await retryWithBackoff(...)`
generateImage ==
  /\ user # "none"
  /\ ~isGenerating
  /\ isOnline
  /\ gen.pc = "idle"
  /\ nextImg <= MaxImages
  /\ Len(generatedImages) < MaxHistory
  /\ isGenerating' = TRUE
  /\ progress' = 0
  /\ progressInterval' = TRUE
  /\ retry' = [retry EXCEPT ![GenRetry] =
                 loopTest([NotStarted EXCEPT !.maxRetries = GenMaxRetries,
                                             !.baseDelay = GenBaseDelay])]
  /\ gen' = [GenIdle EXCEPT !.pc = "awaitRetry"]
  /\ UNCHANGED <<cacheVars, netVars, storeVars, logVars, timeVars>>

\* the setInterval callback: setProgress(prev => Math.min(prev + 10, 90))
progressTick ==
  /\ progressInterval
  /\ progress' = Min(progress + 10, 90)
  /\ UNCHANGED <<cacheVars, retry, netVars, storeVars, logVars,
                 isGenerating, progressInterval, gen, timeVars>>

\* the remote call of the run resolves or rejects
genSettle ==
  /\ gen.pc = "awaitRetry"
  /\ \/ \E v \in GenResults : fnResolve(GenRetry, v)
     \/ \E e \in GenErrors : fnReject(GenRetry, e)

\* setGeneratedImages(prev => [newImage, ...prev]) with the save effect, and
\* the log after the errors of this step (errs) and a failed save
imageAdded(url, errs, writeOk, logOk) ==
  LET failures == IF saveRuns(user, imagesAdded(url)) /\ ~writeOk THEN 1 ELSE 0
  IN
  /\ generatedImages' = imagesAdded(url)
  /\ storage' = saveEffect(storage, user, generatedImages', writeOk)
  /\ errors' = saveFailuresLogged(errs, failures)
  /\ appErrors' = IF errors' # errors \/ failures > 0
                    THEN storedErrors(appErrors, errors', logOk)
                    ELSE appErrors
  /\ UNCHANGED user

\* retryWithBackoff returned a result without data: clearInterval,
\* setProgress(100), the `if` is skipped, and the finally block
retryReturnedEmpty ==
  /\ gen.pc = "awaitRetry"
  /\ retry[GenRetry].pc = "returned"
  /\ retry[GenRetry].settled = "empty"
  /\ progressInterval' = FALSE
  /\ isGenerating' = FALSE
  /\ progress' = 0
  /\ gen' = finished("empty", "", "")
  /\ UNCHANGED <<cacheVars, retry, netVars, storeVars, logVars, timeVars>>

\* retryWithBackoff returned data and the url is cached: preloadImage
\* resolves at once, the image is added, and the finally block
retryReturnedCached(writeOk, logOk) ==
  LET url == retry[GenRetry].settled IN
  /\ gen.pc = "awaitRetry"
  /\ retry[GenRetry].pc = "returned"
  /\ url \in GenUrls
  /\ preloadImageCached(url)
  /\ imageAdded(url, errors, writeOk, logOk)
  /\ progressInterval' = FALSE
  /\ isGenerating' = FALSE
  /\ progress' = 0
  /\ gen' = finished("data", "Image generated successfully!", url)
  /\ UNCHANGED <<retry, netVars, timeVars>>

\* retryWithBackoff returned data and the url is not cached: clearInterval,
\* setProgress(100), and the run waits for the load started by preloadImage
retryReturnedUncached ==
  LET url == retry[GenRetry].settled IN
  /\ gen.pc = "awaitRetry"
  /\ retry[GenRetry].pc = "returned"
  /\ url \in GenUrls
  /\ preloadImageUncached(url)
  /\ progressInterval' = FALSE
  /\ progress' = 100
  /\ gen' = [gen EXCEPT !.pc = "awaitPreload", !.url = url, !.img = nextImg]
  /\ UNCHANGED <<retry, netVars, storeVars, logVars, isGenerating, timeVars>>

\* mutant: the catch block leaves the timer running
retryThrown_timerKept(logOk) ==
  /\ gen.pc = "awaitRetry"
  /\ retry[GenRetry].pc = "thrown"
  /\ errors' = pushed(errors,
                      ErrorInfo(retry[GenRetry].settled,
                                [context |-> "Image Generation",
                                 action |-> "generate_image"]))
  /\ appErrors' = storedErrors(appErrors, errors', logOk)
  /\ isGenerating' = FALSE
  /\ progress' = 0
  /\ gen' = finished("failed", "Failed to generate image. Please try again.", "")
  /\ UNCHANGED <<cacheVars, retry, netVars, storeVars, progressInterval, timeVars>>

\* retryWithBackoff threw: the catch block (clearInterval, setProgress(0),
\* handleImageGenerationError) and the finally block
retryThrown(logOk) ==
  /\ gen.pc = "awaitRetry"
  /\ retry[GenRetry].pc = "thrown"
  /\ errors' = pushed(errors,
                      ErrorInfo(retry[GenRetry].settled,
                                [context |-> "Image Generation",
                                 action |-> "generate_image"]))
  /\ appErrors' = storedErrors(appErrors, errors', logOk)
  /\ progressInterval' = FALSE
  /\ isGenerating' = FALSE
  /\ progress' = 0
  /\ gen' = finished("failed", "Failed to generate image. Please try again.", "")
  /\ UNCHANGED <<cacheVars, retry, netVars, storeVars, timeVars>>

\* the preload of the run ends with onload: the image is added, and the
\* finally block
preloadResolved(l, writeOk, logOk) ==
  /\ gen.pc = "awaitPreload"
  /\ l.img = gen.img
  /\ onloadHandler(l)
  /\ imageAdded(gen.url, errors, writeOk, logOk)
  /\ isGenerating' = FALSE
  /\ progress' = 0
  /\ gen' = finished("data", "Image generated successfully!", gen.url)
  /\ UNCHANGED <<retry, netVars, progressInterval, timeVars>>

\* the preload of the run ends with onerror: the inner catch logs the error,
\* the image is added all the same, and the finally block
preloadRejected(l, cause, writeOk, logOk) ==
  /\ gen.pc = "awaitPreload"
  /\ l.img = gen.img
  /\ onerrorHandler(l, cause)
  /\ imageAdded(gen.url,
                pushed(errors, ErrorInfo(cause, [context |-> "Image preload",
                                                 action |-> "undefined"])),
                writeOk, logOk)
  /\ isGenerating' = FALSE
  /\ progress' = 0
  /\ gen' = finished("preloadFailed", "Image generated successfully!", gen.url)
  /\ UNCHANGED <<retry, netVars, progressInterval, timeVars>>

\* the continuation of the run after the await it waits at
genResumes ==
  \/ retryReturnedEmpty
  \/ \E writeOk \in GenWrites, logOk \in GenWrites : retryReturnedCached(writeOk, logOk)
  \/ retryReturnedUncached
  \/ \E logOk \in GenWrites : retryThrown(logOk)

\* the image load of the run ends
genPreloadEnds ==
  \E l \in inflight, writeOk \in GenWrites, logOk \in GenWrites :
    \/ preloadResolved(l, writeOk, logOk)
    \/ \E cause \in GenCauses : preloadRejected(l, cause, writeOk, logOk)

GenInit ==
  /\ isGenerating = FALSE
  /\ progress = 0
  /\ progressInterval = FALSE
  /\ gen = GenIdle

GenNext ==
  \/ \E u \in GenUsers \cup {"none"}, writeOk \in GenWrites, logOk \in GenWrites :
       authStateChanged(u, writeOk, logOk)
  \/ generateImage
  \/ progressTick
  \/ genSettle
  \/ timerFire(GenRetry)
  \/ genResumes
  \/ genPreloadEnds

\* ---------------------------------------------------------------------------
\* debounce and throttle
\* ---------------------------------------------------------------------------
\* no wrapper made yet
NoDebounce ==
  [made |-> FALSE, delay |-> 0, timeoutId |-> 0, timers |-> {}, calls |-> 0,
   lastCallAt |-> 0, lastArgs |-> "", runs |-> 0, total |-> 0,
   invoked |-> [at |-> 0, args |-> "", id |-> 0]]

NoThrottle ==
  [made |-> FALSE, limit |-> 0, inThrottle |-> "undefined", timers |-> {},
   calls |-> 0, lastCallAt |-> 0, outcome |-> "", total |-> 0,
   lastInvokeAt |-> 0, prevInvokeAt |-> 0]

\* time passes; a timer that is due may fire later than its delay
clockTick ==
  /\ now < MaxTime
  /\ now' = now + 1
  /\ UNCHANGED <<cacheVars, retry, netVars, storeVars, logVars, genVars, deb, thr>>

\* debounce(func, delay): the closure is made, `let timeoutId` is undefined (0)
debounce(delay) ==
  /\ ~deb.made
  /\ deb' = [NoDebounce EXCEPT !.made = TRUE, !.delay = delay]
  /\ UNCHANGED <<cacheVars, retry, netVars, storeVars, logVars, genVars, now, thr>>

\* clearTimeout(id): the timer with that id, if it is pending, is removed
clearTimeout(timers, id) == {t \in timers : t.id # id}

\* mutant: the pending timer is not cleared
debouncedCall_noClear(d, args) ==
  [d EXCEPT !.calls = @ + 1,
            !.timers = @ \cup {[id |-> d.calls + 1, due |-> now + d.delay,
                                args |-> args]},
            !.timeoutId = d.calls + 1,
            !.lastCallAt = now, !.lastArgs = args, !.runs = 0]

\* the body of the wrapper: clearTimeout(timeoutId), then
\* timeoutId = setTimeout(() => func(...args), delay); the id of the new timer
\* is the number of the call
debouncedCall(d, args) ==
  [d EXCEPT !.calls = @ + 1,
            !.timers = clearTimeout(@, d.timeoutId)
                         \cup {[id |-> d.calls + 1, due |-> now + d.delay,
                                args |-> args]},
            !.timeoutId = d.calls + 1,
            !.lastCallAt = now, !.lastArgs = args, !.runs = 0]

\* the wrapper returned by debounce is called with args
debounced(args) ==
  /\ deb.made
  /\ deb.calls < MaxCalls
  /\ deb' = debouncedCall(deb, args)
  /\ UNCHANGED <<cacheVars, retry, netVars, storeVars, logVars, genVars, now, thr>>

\* a timer set by the wrapper fires: func(...args)
debounceTimerFires(t) ==
  /\ t \in deb.timers
  /\ now >= t.due
  /\ deb' = [deb EXCEPT !.timers = @ \ {t},
                        !.runs = @ + 1, !.total = @ + 1,
                        !.invoked = [at |-> now, args |-> t.args, id |-> t.id]]
  /\ UNCHANGED <<cacheVars, retry, netVars, storeVars, logVars, genVars, now, thr>>

\* throttle(func, limit): the closure is made, `let inThrottle` is undefined
throttle(limit) ==
  /\ ~thr.made
  /\ thr' = [NoThrottle EXCEPT !.made = TRUE, !.limit = limit]
  /\ UNCHANGED <<cacheVars, retry, netVars, storeVars, logVars, genVars, now, deb>>

\* the body of the wrapper: when inThrottle is not true, func(...args) runs;
\* when func returns, inThrottle = true and the timer that resets it is set;
\* when func throws, the statements after it are skipped
throttledCall(h, throws) ==
  IF h.inThrottle # "true"
    THEN IF throws
           THEN [h EXCEPT !.calls = @ + 1, !.lastCallAt = now,
                          !.outcome = "threw", !.total = @ + 1,
                          !.prevInvokeAt = h.lastInvokeAt, !.lastInvokeAt = now]
           ELSE [h EXCEPT !.calls = @ + 1, !.lastCallAt = now,
                          !.outcome = "invoked", !.total = @ + 1,
                          !.prevInvokeAt = h.lastInvokeAt, !.lastInvokeAt = now,
                          !.inThrottle = "true",
                          !.timers = @ \cup {[id |-> h.calls + 1,
                                              due |-> now + h.limit]}]
    ELSE [h EXCEPT !.calls = @ + 1, !.lastCallAt = now, !.outcome = "dropped"]

\* the wrapper returned by throttle is called; func throws or returns
throttled(throws) ==
  /\ thr.made
  /\ thr.calls < MaxCalls
  /\ thr' = throttledCall(thr, throws)
  /\ UNCHANGED <<cacheVars, retry, netVars, storeVars, logVars, genVars, now, deb>>

\* the timer set by the wrapper fires: inThrottle = false
throttleTimerFires(t) ==
  /\ t \in thr.timers
  /\ now >= t.due
  /\ thr' = [thr EXCEPT !.timers = @ \ {t}, !.inThrottle = "false"]
  /\ UNCHANGED <<cacheVars, retry, netVars, storeVars, logVars, genVars, now, deb>>

ThrottleNext ==
  \/ \E limit \in LimitArgs : throttle(limit)
  \/ \E throws \in BOOLEAN : throttled(throws)
  \/ \E t \in thr.timers : throttleTimerFires(t)
  \/ clockTick

TimeInit ==
  /\ now = 0
  /\ deb = NoDebounce
  /\ thr = NoThrottle

DebounceNext ==
  \/ \E delay \in DelayArgs : debounce(delay)
  \/ \E args \in CallArgs : debounced(args)
  \/ \E t \in deb.timers : debounceTimerFires(t)
  \/ clockTick

\* ---------------------------------------------------------------------------
\* Specifications
\* ---------------------------------------------------------------------------
vars == <<cacheVars, retry, netVars, storeVars, logVars, genVars, timeVars>>

Init ==
  CacheInit /\ RetryInit /\ NetInit /\ StoreInit /\ LogInit /\ GenInit /\ TimeInit

\* the initial states in which the page is loaded online; the specifications
\* in which the network plays no part start there
InitOnline == Init /\ nmIsOnline

\* the cache alone
CacheSpec == InitOnline /\ [][CacheNext]_vars

\* the retry helper alone
RetrySpec == InitOnline /\ [][RetryNext]_vars

\* NetworkMonitor and the App's subscription, the page loaded online or
\* offline
NetSpec == Init /\ [][NetNext]_vars

\* the error log alone
LogSpec == InitOnline /\ [][LogNext]_vars

\* sign-in, sign-out, user switch and image generation
StoreSpec == InitOnline /\ [][StoreNext]_vars

\* generateImage runs of a signed-in user. The remote call settles, a timer
\* that was set fires, a started image load ends, and a continuation whose
\* promise has settled runs
GenSpec ==
  /\ InitOnline
  /\ [][GenNext]_vars
  /\ WF_vars(genSettle)
  /\ WF_vars(timerFire(GenRetry))
  /\ WF_vars(genResumes)
  /\ WF_vars(genPreloadEnds)

\* a debounced wrapper, its timers and the clock
DebounceSpec == InitOnline /\ [][DebounceNext]_vars

\* a throttled wrapper, its timers and the clock
ThrottleSpec == InitOnline /\ [][ThrottleNext]_vars

\* retry invocations running side by side with each other and with the cache
\* (one key: the cache is exercised in full by CacheSpec)
ConcKeys == {"a"}

\* the arguments tried there (App passes 3 and 1000)
ConcMaxRetries == {2, 3}
ConcBaseDelays == {1000}

ConcNext ==
  \/ \E r \in Retries, mr \in ConcMaxRetries, bd \in ConcBaseDelays :
       retryWithBackoff(r, mr, bd)
  \/ \E r \in Retries, v \in Values : fnResolve(r, v)
  \/ \E r \in Retries, e \in Errors : fnReject(r, e)
  \/ \E r \in Retries : timerFire(r)
  \/ \E src \in ConcKeys : preloadImage(src)
  \/ \E l \in inflight : onload(l)
  \/ clearCache

ConcSpec == InitOnline /\ [][ConcNext]_vars

\* one retry invocation and the preloads of one key, under the scheduling the
\* environment guarantees: a call of the operation settles, a timer fires, a
\* started image load ends with onload or onerror
LiveRetries == {1}

settle(r) ==
  \/ \E v \in Values : fnResolve(r, v)
  \/ \E e \in Errors : fnReject(r, e)

loadEnds(i) ==
  \E l \in inflight :
    /\ l.img = i
    /\ onload(l) \/ \E cause \in Causes : onerror(l, cause)

LiveNext ==
  \/ \E r \in LiveRetries, mr \in MaxRetriesArgs, bd \in BaseDelayArgs :
       retryWithBackoff(r, mr, bd)
  \/ \E r \in LiveRetries : settle(r)
  \/ \E r \in LiveRetries : timerFire(r)
  \/ \E src \in ConcKeys : preloadImage(src)
  \/ \E i \in 1..MaxImages : loadEnds(i)

LiveSpec ==
  /\ InitOnline
  /\ [][LiveNext]_vars
  /\ \A r \in LiveRetries : WF_vars(settle(r)) /\ WF_vars(timerFire(r))
  /\ \A i \in 1..MaxImages : WF_vars(loadEnds(i))

\* ---------------------------------------------------------------------------
\* Properties of the image cache
\* ---------------------------------------------------------------------------
inflightOf(k) == {l \in inflight : l.src = k}

\* C1: in every reachable state of the cache the number of entries is between
\* 0 and the capacity and no key occurs twice.
C1_SizeBoundedKeysUnique ==
  /\ getCacheSize >= 0
  /\ getCacheSize <= maxCacheSize
  /\ Cardinality(MapKeySet(imageCache)) = Len(imageCache)

\* the cache is full while a second load of a key that is itself cached is
\* in flight
C1_Witness ==
  /\ getCacheSize = maxCacheSize
  /\ \E l \in inflight : MapHas(imageCache, l.src) /\ loadCount[l.src] >= 2

\* the Map iterates in the order in which its keys were inserted
FifoOrder(m, seq) ==
  \A i, j \in 1..Len(m) : i < j => seq[m[i].src] < seq[m[j].src]

\* C2: the success of a load of an uncached key into a full cache removes
\* exactly one entry, the one inserted earliest, and appends the new key; a
\* cache hit changes neither the entries nor their order.
C2_FifoEviction ==
  [][ /\ FifoOrder(imageCache', insertSeq')
      /\ \A l \in inflight :
           (onload(l) /\ ~MapHas(imageCache, l.src)
                      /\ Len(imageCache) = maxCacheSize) =>
             /\ MapKeys(imageCache') = Append(Tail(MapKeys(imageCache)), l.src)
             /\ lastOp'.evicted = {imageCache[1].src}
             /\ \A k \in MapKeySet(imageCache) :
                  insertSeq[imageCache[1].src] <= insertSeq[k]
      /\ \A k \in Keys : preloadHit(k) => imageCache' = imageCache
    ]_vars

\* a load into the full cache has just evicted a key that had been hit after
\* its insertion, and a key inserted later was kept
C2_Witness ==
  /\ lastOp.op = "onload"
  /\ Len(imageCache) = maxCacheSize
  /\ lastOp.evicted # {}
  /\ lastOp.evicted \subseteq wasHit
  /\ lastOp.key \notin lastOp.evicted
  /\ imageCache[Len(imageCache)].src = lastOp.key

\* C3: a preload of a key that is in the cache resolves with the cached handle
\* and starts no underlying load.
C3_HitStartsNoLoad ==
  [][ \A k \in Keys :
        (MapHas(imageCache, k) /\ preloadImage(k)) =>
          /\ lastOp'.outcome = "resolved"
          /\ lastOp'.img = MapGet(imageCache, k)
          /\ loadCount' = loadCount
          /\ inflight' = inflight
    ]_vars

\* a second preload of a key was answered from the cache after one load
C3_Witness ==
  /\ lastOp.op = "preload"
  /\ lastOp.outcome = "resolved"
  /\ loadCount[lastOp.key] = 1
  /\ MapHas(imageCache, lastOp.key)
  /\ lastOp.img = MapGet(imageCache, lastOp.key)

\* C4 as stated: at most one underlying load per key is in flight.
C4_AtMostOneLoadPerKey ==
  \A k \in Keys : Cardinality(inflightOf(k)) <= 1

\* C4 amended: preloads are not deduplicated; every preload of a key that is
\* not in the cache starts one more underlying load of it, whether or not
\* loads of that key are in flight.
C4_MissAlwaysStartsLoad ==
  [][ \A k \in Keys :
        (~MapHas(imageCache, k) /\ preloadImage(k)) =>
          /\ loadCount'[k] = loadCount[k] + 1
          /\ Cardinality(inflightOf(k)') = Cardinality(inflightOf(k)) + 1
          /\ lastOp'.outcome = "pending"
    ]_vars

\* two loads of one key are in flight, the second started by the last call
C4_Witness ==
  /\ lastOp.op = "preload"
  /\ lastOp.outcome = "pending"
  /\ Cardinality(inflightOf(lastOp.key)) >= 2

\* C5: the handle stored for a key does not change while the key stays in
\* the cache.
C5_HandleImmutable ==
  [][ \A k \in Keys :
        (MapHas(imageCache, k) /\ MapHas(imageCache', k)) =>
          MapGet(imageCache', k) = MapGet(imageCache, k)
    ]_vars

\* C6: a key leaves the cache only by clearCache or by the insertion of an
\* uncached key into the full cache; the completion of a load of a cached key
\* removes nothing and leaves the size unchanged.
C6_EvictOnlyOnNewKeyOrClear ==
  [][ /\ (Evicted(imageCache, imageCache') # {}) =>
           \/ clearCache
           \/ \E l \in inflight :
                onload(l) /\ ~MapHas(imageCache, l.src)
                          /\ Len(imageCache) = maxCacheSize
      /\ \A l \in inflight :
           (onload(l) /\ MapHas(imageCache, l.src)) =>
             /\ Evicted(imageCache, imageCache') = {}
             /\ Len(imageCache') = Len(imageCache)
    ]_vars

C8_ClearThenCold ==
  [][ /\ clearCache => getCacheSize' = 0
      /\ \A k \in armed :
           preloadImage(k) =>
             /\ loadCount'[k] = loadCount[k] + 1
             /\ lastOp'.outcome = "pending"
    ]_vars

\* a key that was loaded and cached is loaded a second time after a clear
C8_Witness ==
  /\ lastOp.op = "preload"
  /\ lastOp.outcome = "pending"
  /\ loadCount[lastOp.key] = 2
  /\ insertSeq[lastOp.key] > 0
  /\ getCacheSize = 0
  /\ inflight = {[img |-> lastOp.img, src |-> lastOp.key]}

\* ---------------------------------------------------------------------------
\* Properties of retryWithBackoff
\* ---------------------------------------------------------------------------
\* C9: with maxRetries >= 1 the promise is rejected exactly when the
\* operation has failed maxRetries times, after exactly maxRetries calls, and
\* with the error of the last call.
C9_ExhaustedThrowsLastError ==
  \A r \in Retries :
    LET s == retry[r] IN
    s.maxRetries >= 1 =>
      /\ s.calls <= s.maxRetries
      /\ (s.pc = "thrown") <=> (Len(s.errs) = s.maxRetries)
      /\ s.pc = "thrown" =>
           /\ s.calls = s.maxRetries
           /\ s.settled = s.errs[Len(s.errs)]
           /\ s.pending = 0

\* three attempts failed, the last with an error the earlier ones did not raise
C9_Witness ==
  \E r \in Retries :
    LET s == retry[r] IN
    /\ s.pc = "thrown"
    /\ s.maxRetries = 3
    /\ s.calls = 3
    /\ s.errs[1] = s.errs[2]
    /\ s.errs[3] # s.errs[1]
    /\ s.settled = s.errs[3]

\* C10: with maxRetries >= 1, once a call of the operation has succeeded
\* (call number okAt, after okAt - 1 failures) the promise is resolved with
\* that value and no further call is made; at most one call is pending.
C10_SuccessStopsRetry ==
  \A r \in Retries :
    LET s == retry[r] IN
    s.maxRetries >= 1 =>
      /\ s.pending \in {0, 1}
      /\ (s.pc = "returned") <=> (s.okAt > 0)
      /\ s.okAt > 0 =>
           /\ s.settled = s.okValue
           /\ s.calls = s.okAt
           /\ Len(s.errs) = s.okAt - 1
           /\ s.okAt <= s.maxRetries
           /\ s.pending = 0

\* two failures, then a success on the third and last allowed call
C10_Witness ==
  \E r \in Retries :
    LET s == retry[r] IN
    /\ s.pc = "returned"
    /\ s.maxRetries = 3
    /\ Len(s.errs) = 2
    /\ s.calls = 3
    /\ s.settled = "v2"

\* C11: an invocation with maxRetries <= 0 calls the operation never and is
\* rejected at once with a configuration error, a value that is neither
\* undefined nor an error of the operation.
C11_InvalidMaxRetriesConfigError ==
  \A r \in Retries :
    LET s == retry[r] IN
    (s.pc # "idle" /\ s.maxRetries <= 0) =>
      /\ s.pc = "thrown"
      /\ s.calls = 0
      /\ s.settled = "ConfigurationError"

\* the delays an invocation has waited so far, as the claim gives them
ExpectedWaits(s) ==
  [j \in 1..(IF s.pc = "thrown" THEN Len(s.errs) - 1 ELSE Len(s.errs))
     |-> s.baseDelay * 2^(j - 1)]

\* C12: the delay after the failure of attempt i < maxRetries - 1 is
\* baseDelay * 2^i; nothing is waited before attempt 0 or after the failure
\* of the last attempt, and attempt i + 1 starts only when the delay is over.
C12_ExponentialBackoff ==
  \A r \in Retries :
    LET s == retry[r] IN
    s.maxRetries >= 1 =>
      /\ s.waits = ExpectedWaits(s)
      /\ (s.pc = "sleeping") <=> (s.timer # -1)
      /\ s.pc = "sleeping" =>
           /\ s.timer = s.baseDelay * 2^(s.i)
           /\ s.calls = Len(s.waits)
           /\ s.i = Len(s.errs) - 1
      /\ s.pc = "calling" => s.calls = Len(s.waits) + 1
      /\ s.pc = "thrown" => Len(s.waits) = s.maxRetries - 1

\* three failed attempts with baseDelay 1000: waited 1000, then 2000, and
\* nothing after the third failure
C12_Witness ==
  \E r \in Retries :
    LET s == retry[r] IN
    /\ s.pc = "thrown"
    /\ s.maxRetries = 3
    /\ s.baseDelay = 1000
    /\ s.waits = <<1000, 2000>>
    /\ s.timer = -1

\* what the caller of an invocation can see of it
Outcome(s) ==
  IF s.pc \in {"returned", "thrown"}
    THEN <<s.pc, s.settled, s.calls>>
    ELSE <<"running">>

\* C15: with baseDelay = 0 every delay is 0 and all attempts are still made:
\* an exhausted invocation has made maxRetries calls, and its outcome equals
\* that of an invocation with a positive baseDelay whose operation behaved
\* the same.
C15_ZeroDelaySameOutcome ==
  \A r \in Retries :
    LET s == retry[r] IN
    (s.pc # "idle" /\ s.baseDelay = 0) =>
      /\ \A j \in 1..Len(s.waits) : s.waits[j] = 0
      /\ (s.pc = "thrown" /\ s.maxRetries >= 1) => s.calls = s.maxRetries
      /\ \A q \in Retries :
           LET t == retry[q] IN
           (/\ t.pc # "idle" /\ t.baseDelay > 0
            /\ t.maxRetries = s.maxRetries
            /\ t.errs = s.errs /\ t.okAt = s.okAt /\ t.okValue = s.okValue) =>
             Outcome(t) = Outcome(s)

\* two invocations whose operation failed three times, one with baseDelay 0
\* and one with baseDelay 1000, both exhausted after three calls
C15_Witness ==
  \E r, q \in Retries :
    LET s == retry[r]
        t == retry[q] IN
    /\ s.baseDelay = 0 /\ t.baseDelay = 1000
    /\ s.maxRetries = 3 /\ t.maxRetries = 3
    /\ s.pc = "thrown" /\ t.pc = "thrown"
    /\ s.errs = t.errs
    /\ s.calls = 3 /\ t.calls = 3
    /\ s.waits = <<0, 0>>

\* the states one step of an invocation in state s can lead to: they depend
\* on s and on the outcome of its own operation only
OwnSteps(s) ==
  CASE s.pc = "idle" ->
         {loopTest([NotStarted EXCEPT !.maxRetries = mr, !.baseDelay = bd]) :
            mr \in ConcMaxRetries, bd \in ConcBaseDelays}
    [] s.pc = "calling" ->
         {fnResolved(s, v) : v \in Values} \cup {fnRejected(s, e) : e \in Errors}
    [] s.pc = "sleeping" -> {timerFired(s)}
    [] OTHER -> {}

\* C14: a step of one invocation changes only that invocation, to a state
\* that depends on its own state and its own operation's outcome; cache
\* operations change no invocation; and while an invocation waits for its
\* backoff delay, the other invocation and the cache can take their steps.
C14_RetryStatePerInvocation ==
  /\ [][ /\ \A r \in Retries :
              retry'[r] # retry[r] =>
                /\ retry'[r] \in OwnSteps(retry[r])
                /\ \A q \in Retries \ {r} : retry'[q] = retry[q]
                /\ cacheVars' = cacheVars
         /\ cacheVars' # cacheVars => retry' = retry
       ]_vars
  /\ [](\A r \in Retries :
          retry[r].pc = "sleeping" =>
            /\ ENABLED clearCache
            /\ ENABLED preloadImage("a") \/ nextImg > MaxImages
            /\ \A l \in inflight : ENABLED onload(l)
            /\ \A q \in Retries \ {r} :
                 /\ retry[q].pc = "idle" => ENABLED retryWithBackoff(q, 3, 1000)
                 /\ retry[q].pc = "calling" => ENABLED fnReject(q, "e1")
                 /\ retry[q].pc = "sleeping" => ENABLED timerFire(q))

\* one invocation waits for its second backoff delay after two failures,
\* the other is exhausted with another error, and a load is in flight
C14_Witness ==
  \E r, q \in Retries :
    /\ retry[r].pc = "sleeping"
    /\ retry[r].i = 1
    /\ retry[r].lastError = "e1"
    /\ retry[q].pc = "thrown"
    /\ retry[q].lastError = "e2"
    /\ retry[q].calls = 3
    /\ inflight # {}

\* C13: an invocation of retryWithBackoff with maxRetries >= 1 that is
\* calling its operation or waiting for a delay eventually returns or throws,
\* and an image load that was started eventually ends (the preload settles).
C13_RunsToCompletion ==
  /\ \A r \in LiveRetries :
       (retry[r].pc \in {"calling", "sleeping"} /\ retry[r].maxRetries >= 1)
         ~> (retry[r].pc \in {"returned", "thrown"})
  /\ \A i \in 1..MaxImages :
       (\E l \in inflight : l.img = i) ~> ~(\E l \in inflight : l.img = i)

\* an invocation is exhausted after three attempts and two delays, and all
\* loads that were started have ended
C13_Witness ==
  /\ retry[1].pc = "thrown"
  /\ retry[1].maxRetries = 3
  /\ Len(retry[1].waits) = 2
  /\ nextImg > 2
  /\ inflight = {}

\* ---------------------------------------------------------------------------
\* Properties of NetworkMonitor and of the App's isOnline flag
\* ---------------------------------------------------------------------------
\* the subscriptions of listener l whose closure has not been called
liveSubs(l) ==
  Cardinality({h \in 1..Len(handles) : handles[h].fn = l /\ ~handles[h].called})

\* C16: every subscription whose closure was not called is in the listeners
\* array (and so is notified) exactly once and no other is, and a second call
\* of a closure changes nothing.
C16_UnsubscribeExact ==
  /\ [](\A l \in ListenerFns : count(listeners, l) = liveSubs(l))
  /\ [][ \A h \in 1..Len(handles) :
           (unsubscribe(h) /\ handles[h].called) => listeners' = listeners
       ]_vars

\* C18: while App is mounted its isOnline flag equals
\* NetworkMonitor.getStatus(), so the offline guard rejects exactly when the
\* monitor reports offline.
C18_IsOnlineMirrorsMonitor ==
  mounted => /\ isOnline = getStatus
             /\ offlineGuardRejects <=> ~getStatus

\* ---------------------------------------------------------------------------
\* Properties of ErrorHandler
\* ---------------------------------------------------------------------------
\* C20: the log never holds more than maxErrors entries; logError appends
\* the entry and, on a full log, drops exactly the oldest; after a write
\* that succeeded the item app-errors holds the entries getRecentErrors
\* returns, which are the last min(RecentCount, n) of the log in order.
C20_ErrorLogAndStorage ==
  /\ [](/\ Len(errors) <= maxErrors
        /\ Len(getRecentErrors) = IF Len(errors) < RecentCount
                                    THEN Len(errors) ELSE RecentCount
        /\ \A i \in 1..Len(getRecentErrors) :
             getRecentErrors[i] =
               errors[Len(errors) - Len(getRecentErrors) + i])
  /\ [][ \A error \in Errors \cup Causes, ctx \in LogContexts :
           /\ (logError(error, ctx, TRUE) \/ logError(error, ctx, FALSE)) =>
                errors' = Append(IF Len(errors) = maxErrors
                                   THEN Tail(errors) ELSE errors,
                                 ErrorInfo(error, ctx))
           /\ logError(error, ctx, TRUE) => appErrors' = {getRecentErrors'}
       ]_vars

\* ---------------------------------------------------------------------------
\* Properties of the stored image history
\* ---------------------------------------------------------------------------
\* C17: the item generated-images-<u> only holds images that were added
\* while u was signed in (or were loaded from that item).
C17_HistoryKeptPerUser ==
  \A u \in Users :
    \A saved \in storage[u] :
      \A i \in 1..Len(saved) : saved[i].by = u

\* ---------------------------------------------------------------------------
\* Properties of generateImage
\* ---------------------------------------------------------------------------
\* C19: every run of generateImage that has passed the guards ends with
\* isGenerating = false, progress = 0 and the timer cleared, whatever the
\* path; a run whose preload fails still adds its image to the history; and
\* while the timer runs progress is at most 90.
C19_RunEndsClean ==
  /\ isGenerating ~> (~isGenerating /\ progress = 0 /\ ~progressInterval)
  /\ [](progressInterval => progress <= 90 /\ isGenerating)
  /\ [](~isGenerating => progress = 0)
  /\ [][\A l \in inflight, cause \in GenCauses, writeOk \in BOOLEAN,
           logOk \in BOOLEAN :
          preloadRejected(l, cause, writeOk, logOk)
            => /\ Len(generatedImages') = Len(generatedImages) + 1
               /\ generatedImages'[1].url = gen.url
               /\ ~isGenerating' /\ progress' = 0 /\ ~progressInterval']_vars

C19_Witness ==
  /\ gen.path = "preloadFailed"
  /\ ~isGenerating /\ progress = 0 /\ ~progressInterval
  /\ Len(generatedImages) > 0
  /\ generatedImages[1].url = gen.url
  /\ retry[GenRetry].calls = GenMaxRetries

\* ---------------------------------------------------------------------------
\* Properties of debounce and throttle
\* ---------------------------------------------------------------------------
\* C21: func is invoked only by the timer of the most recent call of the
\* wrapper, not before delay has elapsed since that call, with the arguments
\* of that call, and at most once after it; a call that was followed by
\* another call before its timer fired never invokes func.
C21_DebounceQuietPeriod ==
  /\ \A t \in deb.timers : t.id = deb.calls /\ deb.runs = 0
  /\ deb.runs <= 1
  /\ deb.runs = 1 =>
       /\ deb.invoked.id = deb.calls
       /\ deb.invoked.args = deb.lastArgs
       /\ deb.invoked.at >= deb.lastCallAt + deb.delay
  /\ deb.total <= deb.calls

C21_Witness ==
  /\ deb.delay > 0
  /\ deb.calls = 3
  /\ deb.total = 2
  /\ deb.runs = 1
  /\ deb.invoked.args = "y"

\* C22: the first call of the wrapper invokes func; a call made less than
\* limit after the last invocation is dropped, so that two invocations are
\* never less than limit apart; and a call made after limit has elapsed since
\* the last invocation invokes func.
C22_ThrottleWindow ==
  /\ thr.calls = 1 => thr.outcome # "dropped"
  /\ thr.total >= 2 => thr.lastInvokeAt - thr.prevInvokeAt >= thr.limit
  /\ thr.outcome = "dropped" => thr.lastCallAt - thr.lastInvokeAt <= thr.limit

====
